---- MODULE Spec2Model ----
(***************************************************************************)
(* Resume Analysis Assistant: the ingestion path (uploaded files ->        *)
(* loader -> chunker -> vector collection), the question path (retriever   *)
(* -> prompt -> language model) and the Streamlit session state around     *)
(* them, for several browser sessions sharing one persistent collection.   *)
(*                                                                         *)
(* Texts are modelled by their length in characters; a chunk is the        *)
(* window [start, end) of its parent segment together with the metadata    *)
(* the loader attached.  A file name is the list of its parts between     *)
(* dots and a path the record [dir, name].                                 *)
(*                                                                         *)
(* A script run is one step up to a call that waits on the model service   *)
(* (the embeddings in add_documents, the call of the chain); what follows  *)
(* the call is a step of its own.  Every run that comes to the selectbox   *)
(* writes the value the widget has to the session state; a run that ends   *)
(* before it leaves the write to the next run.                             *)
(***************************************************************************)
EXTENDS Integers, Sequences, FiniteSets, TLC

VARIABLES
    collection,           \* the persistent collection "resume_collection"
    vector_store,         \* per session: st.session_state.vector_store
    messages,             \* per session: st.session_state.messages
    resumes_processed,    \* per session: st.session_state.resumes_processed
    current_prompt_type,  \* per session: st.session_state.current_prompt_type
    pending_question,     \* per session: st.session_state.pending_question
    selectbox,            \* per session: the value of "Choose Analysis Type"
    started,              \* per session: the session state has been created
    temp_dir,             \* the temporary files that exist on disk
    wait,                 \* per session: the call the running script waits in
    last,                 \* what the latest script run did (observation only)
    unit                  \* the latest direct call of a pure function

vars == <<collection, vector_store, messages, resumes_processed,
          current_prompt_type, pending_question, selectbox, started, temp_dir,
          wait, last, unit>>

(***************************************************************************)
(* Configuration                                                           *)
(***************************************************************************)
CHUNK_SIZE == 800
CHUNK_OVERLAP == 100
RETRIEVER_K == 5

\* Bounds of the model.
MaxMessages == 3
MaxResumes == 2
MaxPaths == 3
MaxLeaks == 1

Sessions == {"s1", "s2"}

\* The sessions whose user uploads, changes the mode and asks questions; the
\* user of another session loads the page and clears the database.
Analysts == {"s1"}

None == "None"

(***************************************************************************)
(* Names, paths and files                                                  *)
(***************************************************************************)
\* A string that the program takes apart is held as the sequence of the code
\* points of its characters, over the alphabet Latin-1 (0..255), and a file
\* name as the list name.split('.') of its parts: "cv.Pdf" is
\* << <<99, 118>>, <<80, 100, 102>> >>, "noext" is one part and ".bashrc" is
\* << <<>>, <<98, 97, 115, 104, 114, 99>> >>.
FileName(stem, ext) == <<stem, ext>>

Path(dir, name) == [dir |-> dir, name |-> name]

\* os.path.basename
basename(path) == path.name

\* name.split('.')
split_dot(name) == name

\* os.path.splitext(name)[1]: from the last dot on, empty when no character
\* other than a dot stands before the last dot.
splitext_ext(name) ==
    IF \E i \in 1..(Len(name) - 1) : name[i] # <<>>
    THEN <<46>> \o name[Len(name)]
    ELSE <<>>

\* The characters of the alphabet that str.lower changes: A..Z,
\* U+00C0..U+00D6 and U+00D8..U+00DE.
is_upper(c) == c \in 65..90 \/ c \in 192..214 \/ c \in 216..222

\* str.lower on one character of the alphabet: each upper-case letter is
\* 32 below its lower-case one.
lower_char(c) ==
    CASE is_upper(c) -> c + 32
      [] c \in 0..255 /\ ~is_upper(c) -> c

\* str.lower
lower(str) == [i \in DOMAIN str |-> lower_char(str[i])]

\* os.path.splitext(file_path)[1].lower()
file_extension(path) == lower(splitext_ext(basename(path)))

\* What a parser finds in a file: ok = FALSE is a file the parser raises on
\* (corrupt, wrong encoding); pages are the lengths of its text segments.
Content(ok, pages) == [ok |-> ok, pages |-> pages]

DiskFile(path, content) == [path |-> path, content |-> content]

RECURSIVE SumSeq(_)
SumSeq(s) == IF s = <<>> THEN 0 ELSE Head(s) + SumSeq(Tail(s))

RECURSIVE Flatten(_)
Flatten(ss) == IF ss = <<>> THEN <<>> ELSE Head(ss) \o Flatten(Tail(ss))

Range(s) == {s[i] : i \in DOMAIN s}

\* The element of a set of one element.
The(S) == CHOOSE x \in S : TRUE

SeqsUpTo(S, n) == UNION {[1..k -> S] : k \in 0..n}

IsPrefix(s, t) == Len(s) <= Len(t) /\ SubSeq(t, 1, Len(s)) = s

(***************************************************************************)
(* document_processor.py                                                   *)
(***************************************************************************)
\* The loader chosen for an extension, None when the extension is unsupported.
loader_for(ext) ==
    CASE ext = <<46, 112, 100, 102>> -> "PyPDFLoader"              \* '.pdf'
      [] ext \in {<<46, 116, 120, 116>>, <<46, 109, 100>>}
                                      -> "TextLoader"               \* '.txt', '.md'
      [] ext = <<46, 100, 111, 99, 120>> -> "Docx2txtLoader"       \* '.docx'
      [] OTHER -> None

\* The page of a document that has none.
NoPage == -1

\* loader.load(): PyPDFLoader gives one document per page, the other loaders
\* one document with the whole text; each carries metadata.source = file_path.
loader_load(loader, file) ==
    IF loader = "PyPDFLoader"
    THEN [i \in 1..Len(file.content.pages) |->
            [len |-> file.content.pages[i],
             metadata |-> [source |-> file.path, page |-> i - 1]]]
    ELSE << [len |-> SumSeq(file.content.pages),
             metadata |-> [source |-> file.path, page |-> NoPage]] >>

\* The metadata['filename'] written by load_document.
filename_metadata(file_path) == basename(file_path)

\* load_document raises inside its try block: unsupported type (ValueError)
\* or parser failure.  The except clause shows the error with st.error.
load_raises(file) ==
    loader_for(file_extension(file.path)) = None \/ ~file.content.ok

\* A raise inside the try block is caught and the file contributes the
\* empty list.
load_document(file) ==
    LET loader == loader_for(file_extension(file.path))
    IN  IF load_raises(file) THEN <<>>
        ELSE LET documents == loader_load(loader, file)
             IN  [i \in 1..Len(documents) |->
                    [len |-> documents[i].len,
                     metadata |-> [source |-> documents[i].metadata.source,
                                   page |-> documents[i].metadata.page,
                                   filename |-> filename_metadata(file.path)]]]

\* RecursiveCharacterTextSplitter on a text of `len` characters without natural
\* separators: windows of CHUNK_SIZE characters, each starting CHUNK_OVERLAP
\* before the end of the one before; an empty text gives no chunk.
RECURSIVE split_text(_, _)
split_text(len, start) ==
    IF len = 0 THEN <<>>
    ELSE IF len - start <= CHUNK_SIZE THEN << [start |-> start, end |-> len] >>
    ELSE << [start |-> start, end |-> start + CHUNK_SIZE] >>
         \o split_text(len, start + CHUNK_SIZE - CHUNK_OVERLAP)

\* split_documents: the windows of every document, its metadata copied.
RECURSIVE split_documents(_)
split_documents(documents) ==
    IF documents = <<>> THEN <<>>
    ELSE LET doc == Head(documents)
             windows == split_text(doc.len, 0)
         IN  [i \in 1..Len(windows) |->
                [start |-> windows[i].start, end |-> windows[i].end,
                 metadata |-> doc.metadata]]
             \o split_documents(Tail(documents))

\* The documents of every file, in order: the loop of process_documents.
RECURSIVE load_all(_)
load_all(file_paths) ==
    IF file_paths = <<>> THEN <<>>
    ELSE load_document(Head(file_paths)) \o load_all(Tail(file_paths))

process_documents(file_paths) ==
    LET all_documents == load_all(file_paths)
    IN  IF all_documents = <<>> THEN <<>>
        ELSE split_documents(all_documents)

(***************************************************************************)
(* config.py: prompt templates and quick questions                         *)
(***************************************************************************)
Text(tag) == [kind |-> "text", v |-> tag]

Var(name) == [kind |-> "var", v |-> name]

\* Each template as its literal parts and its {placeholders}, in order.
RESUME_PROMPTS ==
    [general    |-> << Text("general: expert resume analyzer"),
                       Var("context"), Var("question"),
                       Text("general: structured professional analysis") >>,
     technical  |-> << Text("technical: senior technical recruiter"),
                       Var("context"), Var("question"),
                       Text("technical: skills, tools, experience level") >>,
     experience |-> << Text("experience: HR professional"),
                       Var("context"), Var("question"),
                       Text("experience: career summary, progression") >>,
     match      |-> << Text("match: candidate-role fit"),
                       Var("context"), Var("question"),
                       Text("match: score, strengths, gaps") >>]

\* The options of the "Choose Analysis Type" selectbox.
AnalysisModes == {"general", "technical", "experience", "match"}

\* The options the model's user picks.
PickedModes == {"general", "match"}

\* The keys of QUICK_QUESTIONS that the model presses, with their questions.
QUICK_QUESTIONS ==
    [Summary    |-> "Provide a comprehensive professional summary of this candidate including their key strengths, experience level, and notable achievements."]

\* The placeholders a template string contains.
placeholders(template) ==
    {template[i].v : i \in {j \in DOMAIN template : template[j].kind = "var"}}

\* dict.get(prompt_type) without the default: no template for another string.
prompts_get_no_default(prompt_type) ==
    IF prompt_type \in DOMAIN RESUME_PROMPTS
    THEN RESUME_PROMPTS[prompt_type]
    ELSE <<>>

\* dict.get(prompt_type, RESUME_PROMPTS["general"])
prompts_get(prompt_type) ==
    IF prompt_type \in DOMAIN RESUME_PROMPTS
    THEN RESUME_PROMPTS[prompt_type]
    ELSE RESUME_PROMPTS["general"]

get_prompt_template(prompt_type) ==
    [template |-> prompts_get(prompt_type),
     input_variables |-> <<"context", "question">>]

(***************************************************************************)
(* vector_store.py                                                         *)
(*                                                                         *)
(* The collection is [exists, records].  A session's vector_store is None  *)
(* (the Chroma object could not be built), "bound" (built on the           *)
(* collection that exists now) or "stale" (built on a collection that was  *)
(* deleted since).  Records are kept as a set of chunks.                   *)
(***************************************************************************)
NoCollection == [exists |-> FALSE, records |-> {}]

EmptyCollection == [exists |-> TRUE, records |-> {}]

\* Chroma(client, collection_name, ...): get-or-create of the named collection.
chroma_open(col) == IF col.exists THEN col ELSE EmptyCollection

\* _initialize_vector_store: on an exception the error is shown and
\* self.vector_store keeps the value it had.
initialize_vector_store(col, handle, chroma_ok) ==
    IF chroma_ok
    THEN [collection |-> chroma_open(col), handle |-> "bound"]
    ELSE [collection |-> col, handle |-> handle]

\* A Chroma object whose collection was deleted.
staled(handle) == IF handle = "bound" THEN "stale" ELSE handle

\* Whether a call through the handle reaches the collection.  A Chroma object
\* holds the collection it was built on by its identifier: once that
\* collection is deleted every call through the object raises, also when a
\* collection of the same name exists again.
reaches(col, handle) == handle = "bound" /\ col.exists

\* add_documents: the chunks are embedded, then written in one call; any
\* exception gives False and nothing is written.
add_documents(col, handle, documents, embed_ok) ==
    IF documents = <<>> THEN [ok |-> FALSE, collection |-> col]
    ELSE IF ~embed_ok \/ ~reaches(col, handle)
    THEN [ok |-> FALSE, collection |-> col]
    ELSE [ok |-> TRUE,
          collection |-> [col EXCEPT !.records = @ \cup Range(documents)]]

\* bool(self.vector_store) for a Chroma object: the class defines __len__ as
\* the count of the collection's records, so the object is false when the
\* count is 0, and the count raises when the collection is not reached.
truth(col, handle) ==
    IF ~reaches(col, handle) THEN "raises"
    ELSE IF col.records = {} THEN "false"
    ELSE "true"

\* get_retriever: None when "not self.vector_store"; "raises" stands for the
\* exception out of that test.
get_retriever(col, handle) ==
    IF handle = None THEN None
    ELSE The({CASE test = "false" -> None
                [] test = "raises" -> "raises"
                [] OTHER -> "retriever" :
              test \in {truth(col, handle)}})

\* clear_database without the delete_collection call: the store is only
\* initialised again, on the collection as it is.
clear_database_no_delete(col, handle, delete_ok, chroma_ok, stop) ==
    IF ~col.exists \/ ~delete_ok
    THEN [ok |-> FALSE, collection |-> col, handle |-> handle,
          deleted |-> FALSE, stopped |-> stop]
    ELSE LET init == initialize_vector_store(col, handle, chroma_ok)
         IN  [ok |-> chroma_ok \/ ~stop, collection |-> init.collection,
              handle |-> init.handle, deleted |-> FALSE,
              stopped |-> ~chroma_ok /\ stop]

\* clear_database: delete_collection raises when the collection does not
\* exist or the client fails, and the except clause shows the error and
\* returns False; otherwise the collection is deleted, the store initialised
\* again (which shows an error of its own when Chroma raises) and True
\* returned.  stop: a widget event has arrived, and the st.error that the
\* call comes to stops the run, so that nothing is returned.
clear_database(col, handle, delete_ok, chroma_ok, stop) ==
    IF ~col.exists \/ ~delete_ok
    THEN [ok |-> FALSE, collection |-> col, handle |-> handle,
          deleted |-> FALSE, stopped |-> stop]
    ELSE LET init == initialize_vector_store(NoCollection, staled(handle), chroma_ok)
         IN  [ok |-> chroma_ok \/ ~stop, collection |-> init.collection,
              handle |-> init.handle, deleted |-> TRUE,
              stopped |-> ~chroma_ok /\ stop]

\* similarity search with k results: the k most similar records, all of them
\* when there are at most k.  Which records are most similar is open.
top_k(records, k) ==
    IF Cardinality(records) <= k THEN {records}
    ELSE {hits \in SUBSET records : Cardinality(hits) = k}

(***************************************************************************)
(* app.py: ResumeAnalyzer                                                  *)
(***************************************************************************)
\* A string built as prefix + text.
Str(prefix, text) == [prefix |-> prefix, text |-> text]

\* A message is the dict {role, content} with or without the key "sources".
UserMessage(content) ==
    [role |-> "user", content |-> Str("", content),
     has_sources |-> FALSE, sources |-> {}]

AnswerMessage(response, sources) ==
    [role |-> "assistant", content |-> Str("", response),
     has_sources |-> TRUE, sources |-> sources]

\* The prefix of error_msg; the cross mark U+274C is written "(x)".
ErrorPrefix == "(x) Error: "

\* error_msg = f"(x) Error: {str(e)}", appended without the key "sources"
ErrorMessage(e) ==
    [role |-> "assistant", content |-> Str(ErrorPrefix, e),
     has_sources |-> FALSE, sources |-> {}]

\* The chain: retriever and prompt; without a retriever the function
\* returns None, here the chain whose retriever is None.
setup_qa_chain(col, handle, prompt_type) ==
    The({IF retriever = None
         THEN [retriever |-> None, prompt |-> get_prompt_template("general")]
         ELSE [retriever |-> retriever,
               prompt |-> get_prompt_template(prompt_type)] :
         retriever \in {get_retriever(col, handle)}})

\* "if not qa_chain"
is_none(qa_chain) == qa_chain.retriever = None

\* The "stuff" chain's prompt: the template with the retrieved chunks for
\* {context} and the question for {question}.
render(prompt, docs, question) ==
    [i \in DOMAIN prompt.template |->
        LET part == prompt.template[i]
        IN  IF part.kind = "text" THEN [text |-> part.v, docs |-> {}]
            ELSE IF part.v = "context" THEN [text |-> "", docs |-> docs]
            ELSE [text |-> question, docs |-> {}]]

\* qa_chain({"query": question}) waits twice on the model service.  First
\* the query is embedded and the collection searched, on the collection as it
\* is then: retrieved is {} when the embedding or the search raised, else
\* {the hits}.
retrieve(col, handle, embed_ok, hits) ==
    IF ~embed_ok THEN [raised |-> "embedding", retrieved |-> {}]
    ELSE IF ~reaches(col, handle)
    THEN [raised |-> "collection", retrieved |-> {}]
    ELSE [raised |-> None, retrieved |-> {hits}]

\* Then the prompt is rendered with the hits and the language model invoked,
\* once; result is {} or {[result, source_documents]}.
generate(chain, question, hits, generate_ok) ==
    [raised |-> IF generate_ok THEN None ELSE "generation",
     retrieved |-> {hits}, llm_calls |-> 1,
     prompt |-> render(chain.prompt, hits, question),
     result |-> IF generate_ok
                THEN {[result |-> "answer", source_documents |-> hits]}
                ELSE {}]

\* The assistant message an exception in the try block is turned into.
on_exception(e) == {ErrorMessage(e)}

\* The assistant message of an answer.
on_result(results) ==
    {AnswerMessage(r.result, r.source_documents) : r \in results}

\* The try block of a question up to the call of the chain: the truth test
\* of get_retriever may raise, setup_qa_chain may give None, and
\* RetrievalQA.from_chain_type may raise (fail = "build").
ask_setup(col, handle, prompt_type, fail) ==
    The({IF qa_chain.retriever = "raises"
         THEN [kind |-> "error", raised |-> "collection", chain |-> qa_chain]
         ELSE IF is_none(qa_chain)
         THEN [kind |-> "nochain", raised |-> None, chain |-> qa_chain]
         ELSE IF fail = "build"
         THEN [kind |-> "error", raised |-> "chain", chain |-> qa_chain]
         ELSE [kind |-> "chain", raised |-> None, chain |-> qa_chain] :
         qa_chain \in {setup_qa_chain(col, handle, prompt_type)}})

\* What a run did with one question.  kind is "nochain" (setup_qa_chain gave
\* None: st.error only), "error" or "answer"; message is {} or {the assistant
\* message appended}; shown says that the answer or the error was written to
\* the page (st.markdown, st.error).
Turn(source, question, prompt_type, kind, retrieved, llm_calls, message, shown) ==
    [source |-> source, question |-> question, prompt_type |-> prompt_type,
     kind |-> kind, retrieved |-> retrieved, llm_calls |-> llm_calls,
     message |-> message, shown |-> shown]

\* A question whose set up did not give a chain.  The except clause calls
\* st.error and then appends: a run that is stopped at the st.error has
\* caught the exception, shows nothing and appends nothing.
setup_turn(source, setup, prompt_type, question, stopped) ==
    IF setup.kind = "nochain"
    THEN Turn(source, question, prompt_type, "nochain", {}, 0, {}, ~stopped)
    ELSE Turn(source, question, prompt_type, "error", {}, 0,
              IF stopped THEN {} ELSE on_exception(setup.raised), ~stopped)

\* "if sources:" after st.markdown(response): the answer came with source
\* documents, which are shown in an expander before the append.
shows_sources(out) ==
    /\ out.raised = None
    /\ \E r \in out.result : r.source_documents # {}

\* A question whose chain call has returned or raised (out is what retrieve
\* or generate gave).  st.markdown(response) and st.error stand before the
\* append: a run that is stopped there (stop = "result") has made the call,
\* shows nothing and appends nothing.  Between st.markdown(response) and the
\* append stand the expander and the lines of the sources: a run that is
\* stopped there (stop = "sources") has shown the answer and appends nothing.
call_turn(source, prompt_type, question, out, llm_calls, stop) ==
    Turn(source, question, prompt_type,
         IF out.raised # None THEN "error" ELSE "answer",
         out.retrieved, llm_calls,
         IF stop \in {"result", "sources"} THEN {}
         ELSE IF out.raised # None THEN on_exception(out.raised)
         ELSE on_result(out.result),
         stop # "result")

\* tempfile.NamedTemporaryFile(delete=False, suffix="." + name.split('.')[-1])
temp_path(uploaded_file, token) ==
    LET parts == split_dot(uploaded_file.name)
    IN  Path("/tmp", FileName(token, parts[Len(parts)]))

\* "if success: resumes_processed.extend(processed_names)"
extend_if(success, resumes, processed_names) ==
    IF success THEN resumes \o processed_names ELSE resumes

\* process_uploaded_files up to the call of add_documents: the loop that
\* writes the temporary files, and process_documents.  tokens are the random
\* parts of the temporary names; write_fail = i > 0 makes the write of the
\* i-th file raise (the file is created, not yet listed in temp_files).
staged_uploads(uploaded_files, tokens, write_fail) ==
    LET n == Len(uploaded_files)
        written == IF write_fail = 0 THEN n ELSE write_fail - 1
        temp_files == [i \in 1..written |->
                          DiskFile(temp_path(uploaded_files[i], tokens[i]),
                                   uploaded_files[i].content)]
    IN  [temp_files |-> temp_files,
         created |-> {temp_path(uploaded_files[i], tokens[i]) :
                         i \in 1..(IF write_fail = 0 THEN n ELSE write_fail)},
         processed_names |-> [i \in 1..written |-> uploaded_files[i].name],
         raised |-> write_fail # 0,
         documents |-> IF write_fail # 0 THEN <<>>
                       ELSE process_documents(temp_files)]

\* process_uploaded_files from there on: add_documents (called only with
\* documents), the extend, and the finally block, which unlinks the listed
\* files on every way out.
finish_uploads(uploaded_files, staged, col, handle, resumes, tdir, embed_ok) ==
    LET unlinked == {staged.temp_files[i].path : i \in DOMAIN staged.temp_files}
        left == (tdir \cup staged.created) \ unlinked
        added == add_documents(col, handle, staged.documents, embed_ok)
        base == [temp_files |-> staged.temp_files, created |-> staged.created,
                 documents |-> staged.documents]
    IN  IF uploaded_files = <<>>
        THEN base @@ [ok |-> FALSE, raised |-> FALSE, collection |-> col,
                      resumes_processed |-> resumes, temp_dir |-> tdir,
                      add_called |-> FALSE, add_ok |-> FALSE]
        ELSE IF staged.raised
        THEN base @@ [ok |-> FALSE, raised |-> TRUE, collection |-> col,
                      resumes_processed |-> resumes, temp_dir |-> left,
                      add_called |-> FALSE, add_ok |-> FALSE]
        ELSE IF staged.documents = <<>>
        THEN base @@ [ok |-> FALSE, raised |-> FALSE, collection |-> col,
                      resumes_processed |-> resumes, temp_dir |-> left,
                      add_called |-> FALSE, add_ok |-> FALSE]
        ELSE base @@ [ok |-> added.ok, raised |-> FALSE,
                      collection |-> added.collection,
                      resumes_processed |->
                          extend_if(added.ok, resumes, staged.processed_names),
                      temp_dir |-> left, add_called |-> TRUE,
                      add_ok |-> added.ok]

\* process_uploaded_files, from the call to the return or the exception.
process_uploaded_files(uploaded_files, tokens, col, handle, resumes, tdir, write_fail, embed_ok) ==
    IF uploaded_files = <<>>
    THEN finish_uploads(uploaded_files,
                        [temp_files |-> <<>>, created |-> {},
                         processed_names |-> <<>>, raised |-> FALSE,
                         documents |-> <<>>],
                        col, handle, resumes, tdir, embed_ok)
    ELSE finish_uploads(uploaded_files,
                        staged_uploads(uploaded_files, tokens, write_fail),
                        col, handle, resumes, tdir, embed_ok)

(***************************************************************************)
(* app.py: one script run per user interaction                             *)
(***************************************************************************)
\* The files offered to the uploader (type = pdf, txt, docx).
\* alice.txt
alice_txt ==
    [name |-> FileName(<<97, 108, 105, 99, 101>>, <<116, 120, 116>>),
     content |-> Content(TRUE, <<900>>)]

\* bob.PDF, which the parser raises on
bob_pdf ==
    [name |-> FileName(<<98, 111, 98>>, <<80, 68, 70>>),
     content |-> Content(FALSE, <<>>)]

Uploads == {alice_txt, bob_pdf}

\* The selections of the uploader that the model makes.
UploadLists == {<<alice_txt>>, <<bob_pdf>>, <<bob_pdf, alice_txt>>}

\* The random parts NamedTemporaryFile draws for its names.
TmpTokens ==    \* tmpk3x, tmpp9q
    << <<116, 109, 112, 107, 51, 120>>, <<116, 109, 112, 112, 57, 113>> >>

ChatPrompts == {"What programming languages does this candidate know?"}

\* The calls that can raise before the chain is called.
SetupFailures == {"none", "build"}

\* The session state of session s as one record.
Session(s) ==
    [vector_store |-> vector_store[s],
     messages |-> messages[s],
     resumes_processed |-> resumes_processed[s],
     current_prompt_type |-> current_prompt_type[s],
     pending_question |-> pending_question[s]]

\* A message list that replaces the conversation by the message of the option.
Assign1(seq, m) == IF m = {} THEN seq ELSE <<CHOOSE x \in m : TRUE>>

\* seq with the message of the option m (no message, or one) appended.
Append1(seq, m) == IF m = {} THEN seq ELSE Append(seq, CHOOSE x \in m : TRUE)

\* Where a script run stands.  A run is one step of the model up to a call
\* that waits on the model service: the embedding of the chunks in
\* add_documents ("add"), the embedding of the query in the call of the
\* chain ("ask") and the language model in the same call ("generate").
\* There the other sessions take steps.  The session's own next run begins
\* only when this one has ended: a widget event that arrives meanwhile stops
\* the run at its next st. call, which the call that waits comes before.
NoWait == [at |-> "none"]

\* staged is what process_uploaded_files holds when it calls add_documents,
\* prompt_type the value the selectbox has in this run.
Adding(uploaded_files, staged, prompt_type) ==
    [at |-> "add", uploaded_files |-> uploaded_files, staged |-> staged,
     prompt_type |-> prompt_type]

\* prompt is the value of the chat input that the run has still to handle.
Asking(source, question, prompt_type, setup, prompt) ==
    [at |-> "ask", source |-> source, question |-> question,
     prompt_type |-> prompt_type, setup |-> setup, prompt |-> prompt]

\* hits are the chunks the search returned.
Generating(w, hits) ==
    [at |-> "generate", source |-> w.source, question |-> w.question,
     prompt_type |-> w.prompt_type, setup |-> w.setup, prompt |-> w.prompt,
     hits |-> hits]

\* The st. call at which a widget event that has arrived stops a run, where
\* the stop lands between two writes of the run:
\*   "none"           no event arrives, the run goes to its end
\*   "main"           a call after the write of the selectbox value and
\*                    before the pending question (st.divider, st.header,
\*                    the display of the messages)
\*   "assistant"      st.chat_message("assistant"), after the delattr
\*   "pending_error"  st.error of the pending question (no chain, or except)
\*   "chat_input"     st.chat_input
\*   "user"           st.chat_message("user"), after the append of the prompt
\*   "chat_error"     st.error of the chat question (no chain, or except)
\*   "result"         the first call after the chain returned or raised
\*                    (the end of st.spinner, st.markdown, st.error)
\*   "sources"        st.expander or an st.markdown of a source document,
\*                    after st.markdown(response) and before the append
Stops ==
    {"none", "main", "assistant", "pending_error", "chat_input", "user",
     "chat_error"}

CallStops == {"none", "result", "sources", "chat_input", "user", "chat_error"}

\* The stops that land between two writes of a run that begins in session
\* state S with the chat input prompt: without resumes, or with no question
\* to handle, the main interface writes nothing.
StopsOf(S, prompt) ==
    {stop \in Stops :
        \/ stop = "none"
        \/ /\ S.resumes_processed # <<>>
           /\ \/ /\ stop = "main"
                 /\ S.pending_question # None \/ prompt # None
              \/ /\ stop \in {"assistant", "pending_error"}
                 /\ S.pending_question # None
              \/ /\ stop \in {"chat_input", "user", "chat_error"}
                 /\ prompt # None}

\* The stops of the rest of a run whose chain call ends: the chat input is
\* come to only after a pending question.
CallStopsOf(w) ==
    IF w.source = "pending" /\ w.prompt # None THEN CallStops
    ELSE {"none", "result", "sources"}

\* Those of them that the run comes to when the call has ended with out: the
\* sources are shown only with an answer that has some.
CallStopsAfter(w, out) ==
    {stop \in CallStopsOf(w) : stop = "sources" => shows_sources(out)}

\* The stops of a run whose process_uploaded_files does not return True:
\*   "add"      st.error of add_documents, which has caught an exception:
\*              the function returns nothing
\*   "sidebar"  a call between the return of False and the selectbox
\*              (st.error, st.divider, st.header, st.selectbox)
\* and those of the main interface.
FailedProcessStops(S, add_called) ==
    StopsOf(S, None) \cup {"sidebar"} \cup (IF add_called THEN {"add"} ELSE {})

\* st.session_state.current_prompt_type = prompt_type, the value the
\* selectbox has in the run.
write_mode(S, prompt_type) == [S EXCEPT !.current_prompt_type = prompt_type]

\* "Chat input": the user message is appended, then the question put
\* through the chain; the last part of a run.
handle_chat(S, col, prompt, fail, stop) ==
    IF prompt = None \/ stop = "chat_input"
    THEN [S |-> S, turns |-> <<>>, wait |-> NoWait]
    ELSE The({
         LET S1 == [S EXCEPT !.messages = Append(@, UserMessage(prompt))]
             turn == setup_turn("chat", setup, S.current_prompt_type, prompt,
                                stop = "chat_error")
         IN  IF stop = "user"
             THEN [S |-> S1, turns |-> <<>>, wait |-> NoWait]
             ELSE IF setup.kind = "chain"
             THEN [S |-> S1, turns |-> <<>>,
                   wait |-> Asking("chat", prompt, S.current_prompt_type,
                                   setup, None)]
             ELSE [S |-> [S1 EXCEPT !.messages = Append1(@, turn.message)],
                   turns |-> <<turn>>, wait |-> NoWait] :
         setup \in {ask_setup(col, S.vector_store, S.current_prompt_type,
                              fail)}})

\* "Handle pending questions from quick analysis": the attribute is deleted
\* and the question put through the chain.  stopped says that the run ends
\* here.
handle_pending(S, col, fail, stop) ==
    IF S.pending_question = None
    THEN [S |-> S, turns |-> <<>>, wait |-> NoWait, stopped |-> FALSE]
    ELSE The({
         LET S1 == [S EXCEPT !.pending_question = None]
             turn == setup_turn("pending", setup, S.current_prompt_type,
                                S.pending_question, stop = "pending_error")
         IN  IF stop = "assistant"
             THEN [S |-> S1, turns |-> <<>>, wait |-> NoWait, stopped |-> TRUE]
             ELSE IF setup.kind = "chain"
             THEN [S |-> S1, turns |-> <<>>,
                   wait |-> Asking("pending", S.pending_question,
                                   S.current_prompt_type, setup, None),
                   stopped |-> FALSE]
             ELSE [S |-> [S1 EXCEPT !.messages = Append1(@, turn.message)],
                   turns |-> <<turn>>, wait |-> NoWait,
                   stopped |-> stop = "pending_error"] :
         setup \in {ask_setup(col, S.vector_store, S.current_prompt_type,
                              fail)}})

\* The main interface below the sidebar: nothing but hints while no resume
\* is loaded, else the pending question and then the chat input.
main_interface(S, col, prompt, failP, failC, stop) ==
    IF S.resumes_processed = <<>> \/ stop = "main"
    THEN [S |-> S, turns |-> <<>>, wait |-> NoWait]
    ELSE The({
         IF p.wait.at = "ask"
         THEN [S |-> p.S, turns |-> p.turns,
               wait |-> [p.wait EXCEPT !.prompt = prompt]]
         ELSE IF p.stopped
         THEN [S |-> p.S, turns |-> p.turns, wait |-> NoWait]
         ELSE The({[S |-> c.S, turns |-> p.turns \o c.turns, wait |-> c.wait] :
                   c \in {handle_chat(p.S, col, prompt, failC, stop)}}) :
         p \in {handle_pending(S, col, failP, stop)}})

\* The rest of a run whose chain call has returned or raised (out, after
\* llm_calls calls of the language model): the answer or the error is shown,
\* the message is appended and, after a pending question, the chat input
\* handled.  A run stopped before the append ends there.
finish_turn(S, w, out, llm_calls, col, failC, stop) ==
    The({
    LET S1 == [S EXCEPT !.messages = Append1(@, turn.message)]
    IN  IF w.source = "pending" /\ stop \notin {"result", "sources"}
        THEN The({[S |-> c.S, turns |-> <<turn>> \o c.turns, wait |-> c.wait] :
                  c \in {handle_chat(S1, col, w.prompt, failC, stop)}})
        ELSE [S |-> S1, turns |-> <<turn>>, wait |-> NoWait] :
    turn \in {call_turn(w.source, w.prompt_type, w.question, out, llm_calls,
                        stop)}})

\* The failures to enumerate for a question that is, or is not, asked.
FailuresIf(asked) == IF asked THEN SetupFailures ELSE {"none"}

AsksPending(S) == S.resumes_processed # <<>> /\ S.pending_question # None

NoIngest == [called |-> FALSE]

NoClear ==
    [called |-> FALSE, ok |-> FALSE, found |-> NoCollection,
     delete_ok |-> FALSE, chroma_ok |-> FALSE, stopped |-> FALSE]

\* What is kept of a question put through the chain; appended says that its
\* assistant message was appended to the conversation.
Observed(turn) ==
    [source |-> turn.source, kind |-> turn.kind,
     llm_calls |-> turn.llm_calls, retrieved |-> turn.retrieved,
     prompt_type |-> turn.prompt_type, appended |-> turn.message # {},
     shown |-> turn.shown]

\* The end of a step of a run: the session state, the collection, the
\* temporary directory and the place where the run waits are written back.
\* deleted says that the collection was deleted, which stales the other
\* sessions' stores.
Commit(s, op, S, col, deleted, tdir, ingest, clear, turns, w) ==
    /\ collection' = col
    /\ vector_store' =
          [t \in Sessions |->
              IF t = s THEN S.vector_store
              ELSE IF deleted THEN staled(vector_store[t])
              ELSE vector_store[t]]
    /\ messages' = [messages EXCEPT ![s] = S.messages]
    /\ resumes_processed' = [resumes_processed EXCEPT ![s] = S.resumes_processed]
    /\ current_prompt_type' = [current_prompt_type EXCEPT ![s] = S.current_prompt_type]
    /\ pending_question' = [pending_question EXCEPT ![s] = S.pending_question]
    /\ temp_dir' = tdir
    /\ wait' = [wait EXCEPT ![s] = w]
    /\ last' = [op |-> op, s |-> s, ingest |-> ingest, clear |-> clear,
                turns |-> [i \in DOMAIN turns |-> Observed(turns[i])]]
    /\ UNCHANGED unit

\* The messages that the questions of session s not yet put through the
\* chain will add: the answer to a pending question.
Owed(s) == IF pending_question[s] # None THEN 1 ELSE 0

\* The bound on the conversation, asked of the state before an event: the
\* event is taken only where all it can append has room.
Room(s, n) == Len(messages[s]) + Owed(s) + n <= MaxMessages

\* A run for a widget event of session s begins: the session has been
\* created and its run before has ended (a run inside a call that waits ends
\* after the call has returned).
Reached(s) == started[s] /\ wait[s].at = "none"

NoRun ==
    [op |-> "none", s |-> None, ingest |-> NoIngest,
     clear |-> NoClear, turns |-> <<>>]

Idle == [fn |-> "none", arg |-> <<>>, result |-> <<>>]

Init ==
    /\ collection \in {NoCollection}
    /\ vector_store = [s \in Sessions |-> None]
    /\ messages = [s \in Sessions |-> <<>>]
    /\ resumes_processed = [s \in Sessions |-> <<>>]
    /\ current_prompt_type = [s \in Sessions |-> "general"]
    /\ pending_question = [s \in Sessions |-> None]
    /\ selectbox = [s \in Sessions |-> "general"]
    /\ started = [s \in Sessions |-> FALSE]
    /\ temp_dir = {}
    /\ wait = [s \in Sessions |-> NoWait]
    /\ last = NoRun
    /\ unit = Idle

\* The selectbox of session s has the value prompt_type in the run that
\* begins: the widget keeps it for the runs that follow.
Selects(s, prompt_type) == selectbox' = [selectbox EXCEPT ![s] = prompt_type]

\* main(): the start-up check of the language model fails and st.stop() ends
\* the run before the application object is built.
RunStopped(s) ==
    /\ s \in Sessions
    /\ UNCHANGED vars

\* The first run of a session: ResumeAnalyzer.__init__ creates the session
\* state and the VectorStore; no widget has a value yet, and the selectbox
\* gives its first option.
Load(s) ==
    /\ ~started[s]
    /\ \E chroma_ok \in BOOLEAN :
       \E init \in {initialize_vector_store(collection, None, chroma_ok)} :
            Commit(s, "load",
                   write_mode([vector_store |-> init.handle, messages |-> <<>>,
                               resumes_processed |-> <<>>,
                               current_prompt_type |-> "general",
                               pending_question |-> pending_question[s]],
                              "general"),
                   init.collection, FALSE, temp_dir,
                   NoIngest, NoClear, <<>>, NoWait)
    /\ Selects(s, "general")
    /\ started' = [started EXCEPT ![s] = TRUE]

\* A run without a new widget value (st.rerun() or a rerun of the page),
\* stopped at stop.  The selectbox has the value it had, which the run
\* writes: it is not written yet when the run before ended above the
\* selectbox (st.rerun() after a successful "Process Resumes", or a stop).
\* Then a pending question is put through the chain.  Without either such a
\* run changes nothing.
RerunAt(s, stop) ==
    /\ Reached(s)
    /\ pending_question[s] # None \/ selectbox[s] # current_prompt_type[s]
    /\ \E S \in {write_mode(Session(s), selectbox[s])} :
       \E failP \in FailuresIf(AsksPending(S)) :
       \E m \in {main_interface(S, collection, None, failP, "none", stop)} :
            Commit(s, "rerun", m.S, collection, FALSE, temp_dir,
                   NoIngest, NoClear, m.turns, m.wait)
    /\ UNCHANGED <<started, selectbox>>

Rerun(s) == \E stop \in StopsOf(Session(s), None) : RerunAt(s, stop)

\* The selectbox takes another value and no other widget has an event: the
\* run writes the value to the session state and goes on to the main
\* interface.  A run stopped above the selectbox (stop = "sidebar") has
\* written nothing: the widget alone has the new value.
SelectMode(s) ==
    /\ Reached(s)
    /\ s \in Analysts
    /\ \E prompt_type \in PickedModes \ {selectbox[s]} :
       /\ \E S \in {write_mode(Session(s), prompt_type)} :
          \E failP \in FailuresIf(AsksPending(S)),
             stop \in StopsOf(S, None) \cup {"sidebar"} :
             IF stop = "sidebar"
             THEN Commit(s, "select", Session(s), collection, FALSE, temp_dir,
                         NoIngest, NoClear, <<>>, NoWait)
             ELSE \E m \in {main_interface(S, collection, None, failP, "none",
                                           stop)} :
                     Commit(s, "select", m.S, collection, FALSE, temp_dir,
                            NoIngest, NoClear, m.turns, m.wait)
       /\ Selects(s, prompt_type)
    /\ UNCHANGED started

\* A quick-analysis button, in a run whose selectbox has the value
\* prompt_type (the one it had, or another): the value is written; then, with
\* resumes loaded, the question is appended as a user message, left pending,
\* and st.rerun() ends the run; without, a warning is shown and the run goes
\* on (to the hints of the main interface).
QuickAnalysis(s) ==
    /\ Reached(s)
    /\ s \in Analysts
    /\ Room(s, 2)
    /\ \E question_type \in DOMAIN QUICK_QUESTIONS, prompt_type \in PickedModes :
       /\ \E S \in {write_mode(Session(s), prompt_type)} :
            IF S.resumes_processed # <<>>
            THEN Commit(s, "quick",
                        [S EXCEPT !.messages =
                                      Append(@, UserMessage(QUICK_QUESTIONS[question_type])),
                                  !.pending_question = QUICK_QUESTIONS[question_type]],
                        collection, FALSE, temp_dir, NoIngest, NoClear, <<>>,
                        NoWait)
            ELSE Commit(s, "quick", S, collection, FALSE, temp_dir,
                        NoIngest, NoClear, <<>>, NoWait)
       /\ Selects(s, prompt_type)
    /\ UNCHANGED started

\* The "Clear All" button, in a run whose selectbox has the value
\* prompt_type, which is written before the button is come to: when
\* clear_database returns True the loaded list and the conversation are
\* emptied and st.rerun() ends the run; when it returns False the run goes
\* on to the main interface; when the run is stopped inside it the run ends
\* with what clear_database has done.
ClearAll(s) ==
    /\ Reached(s)
    /\ \E prompt_type \in (IF s \in Analysts THEN PickedModes
                           ELSE {selectbox[s]}) :
       /\ Selects(s, prompt_type)
       /\ \E delete_ok \in (IF collection.exists THEN BOOLEAN ELSE {FALSE}) :
          \E chroma_ok \in (IF delete_ok THEN BOOLEAN ELSE {TRUE}) :
          \E stopped \in (IF delete_ok /\ chroma_ok THEN {FALSE} ELSE BOOLEAN) :
           \E S \in {write_mode(Session(s), prompt_type)} :
           \E c \in {clear_database(collection, S.vector_store, delete_ok,
                                    chroma_ok, stopped)} :
           \E rec \in {[called |-> TRUE, ok |-> c.ok, found |-> collection,
                        delete_ok |-> delete_ok, chroma_ok |-> chroma_ok,
                        stopped |-> c.stopped]} :
               IF c.stopped
               THEN Commit(s, "clear", [S EXCEPT !.vector_store = c.handle],
                           c.collection, c.deleted, temp_dir, NoIngest, rec, <<>>,
                           NoWait)
               ELSE IF c.ok
               THEN Commit(s, "clear",
                           [S EXCEPT !.vector_store = c.handle,
                                     !.resumes_processed = <<>>,
                                     !.messages = <<>>],
                           c.collection, c.deleted, temp_dir, NoIngest, rec, <<>>,
                           NoWait)
               ELSE \E failP \in FailuresIf(AsksPending(S)),
                       stop \in StopsOf(S, None) :
                    \E m \in {main_interface(S, collection, None, failP, "none",
                                             stop)} :
                       Commit(s, "clear", m.S, collection, FALSE, temp_dir,
                              NoIngest, rec, m.turns, m.wait)
    /\ UNCHANGED started

\* NamedTemporaryFile gives each file a random name that the directory does
\* not hold: any assignment of different tokens whose names are free.
FreeTokens(uploaded_files) ==
    {tokens \in [DOMAIN uploaded_files -> Range(TmpTokens)] :
        /\ \A i, j \in DOMAIN uploaded_files : tokens[i] = tokens[j] => i = j
        /\ \A i \in DOMAIN uploaded_files :
              temp_path(uploaded_files[i], tokens[i]) \notin temp_dir}

\* Where process_documents can be stopped: 0 (nowhere), or the place in the
\* list of a file that does not load, at whose st.error a widget event that
\* has arrived stops the run.
LoadStops(staged) ==
    {0} \cup (IF staged.raised THEN {}
              ELSE {i \in DOMAIN staged.temp_files :
                       load_raises(staged.temp_files[i])})

\* process_documents stopped at the st.error of a file that does not load:
\* nothing is returned and no document reaches add_documents.
stopped_loading(staged) == [staged EXCEPT !.documents = <<>>]

\* What process_uploaded_files has done when it has returned, raised, or been
\* stopped at an st.error inside it (stopped; load_stop is the place of the
\* file at which process_documents was stopped, or 0).  returned is {} or
\* {the value returned}; documents is what process_documents returned (<<>>
\* also when it did not return) and reported are the files whose error
\* load_document has shown; resumes_processed and messages are the session's
\* lists as the function leaves them.
Ingested(uploaded_files, r, stopped, load_stop, S) ==
    [called |-> TRUE, uploaded_files |-> uploaded_files,
     temp_files |-> r.temp_files, created |-> r.created,
     documents |-> r.documents,
     reported |-> IF r.raised THEN {}
                  ELSE {r.temp_files[i].path :
                           i \in {j \in DOMAIN r.temp_files :
                                     /\ load_raises(r.temp_files[j])
                                     /\ load_stop = 0 \/ j < load_stop}},
     add_called |-> r.add_called, add_ok |-> r.add_ok, ok |-> r.ok,
     raised |-> r.raised, stopped |-> stopped,
     returned |-> IF r.raised \/ stopped THEN {} ELSE {r.ok},
     resumes_processed |-> r.resumes_processed, messages |-> S.messages]

\* The run of "Process Resumes" from the end of process_uploaded_files
\* (result r): after True, st.rerun() ends the run before the selectbox; a
\* run stopped at the st.error of add_documents ends after the finally
\* block; after False the run shows the failure, comes to the selectbox,
\* writes its value prompt_type and goes on to the main interface.
ProcessEnd(s, S, uploaded_files, r, prompt_type) ==
    \E S1 \in {[S EXCEPT !.resumes_processed = r.resumes_processed]} :
    \E S2 \in {write_mode(S1, prompt_type)} :
    \E stop \in (IF r.ok THEN {"none"}
                 ELSE FailedProcessStops(S2, r.add_called)) :
    \E ing \in {Ingested(uploaded_files, r, stop = "add", 0, S1)} :
        IF r.ok \/ stop \in {"add", "sidebar"}
        THEN Commit(s, "process", S1, r.collection, FALSE, r.temp_dir,
                    ing, NoClear, <<>>, NoWait)
        ELSE \E failP \in FailuresIf(AsksPending(S2)) :
             \E m \in {main_interface(S2, r.collection, None, failP, "none",
                                      stop)} :
                Commit(s, "process", m.S, r.collection, FALSE, r.temp_dir,
                       ing, NoClear, m.turns, m.wait)

\* The "Process Resumes" button, up to add_documents: the temporary files
\* are written and loaded.  A write that raises ends the run, and so does a
\* widget event that arrives before a file that does not load.  With no
\* document the function returns False; with documents and no Chroma object
\* add_documents raises at once (the call on None) and returns False.
\* Otherwise the run waits for the embeddings with its files on disk.
ProcessResumes(s) ==
    /\ Reached(s)
    /\ s \in Analysts
    /\ Cardinality(temp_dir) < MaxLeaks
    /\ \E uploaded_files \in UploadLists, prompt_type \in PickedModes :
       /\ Selects(s, prompt_type)
       /\ Len(resumes_processed[s]) + Len(uploaded_files) <= MaxResumes
       /\ \E tokens \in FreeTokens(uploaded_files),
             write_fail \in 0..Len(uploaded_files) :
          \E S \in {Session(s)} :
          \E staged \in {staged_uploads(uploaded_files, tokens, write_fail)} :
          \E load_stop \in LoadStops(staged) :
            IF staged.raised \/ load_stop # 0
            THEN \E r \in {finish_uploads(uploaded_files,
                              IF load_stop # 0 THEN stopped_loading(staged)
                              ELSE staged,
                              collection, S.vector_store, S.resumes_processed,
                              temp_dir, TRUE)} :
                 Commit(s, "process", S, collection, FALSE, r.temp_dir,
                        Ingested(uploaded_files, r, load_stop # 0, load_stop, S),
                        NoClear, <<>>, NoWait)
            ELSE IF staged.documents = <<>> \/ S.vector_store = None
            THEN \E r \in {finish_uploads(uploaded_files, staged, collection,
                              S.vector_store, S.resumes_processed, temp_dir,
                              TRUE)} :
                 ProcessEnd(s, S, uploaded_files, r, prompt_type)
            ELSE Commit(s, "process", S, collection, FALSE,
                        temp_dir \cup staged.created, NoIngest, NoClear,
                        <<>>, Adding(uploaded_files, staged, prompt_type))
    /\ UNCHANGED started

\* add_documents returns or raises and process_uploaded_files ends: the
\* chunks are stored or not, the names listed on success and the temporary
\* files unlinked; the run goes on as after any end of the function.
ProcessFinish(s) ==
    /\ started[s]
    /\ wait[s].at = "add"
    /\ \E embed_ok \in BOOLEAN :
       \E S \in {Session(s)} :
       \E r \in {finish_uploads(wait[s].uploaded_files, wait[s].staged,
                     collection, S.vector_store, S.resumes_processed,
                     temp_dir, embed_ok)} :
            ProcessEnd(s, S, wait[s].uploaded_files, r, wait[s].prompt_type)
    /\ UNCHANGED <<started, selectbox>>

\* A prompt submitted in the chat input, which exists only while resumes are
\* loaded, in a run whose selectbox has the value prompt_type.
ChatInput(s) ==
    /\ Reached(s)
    /\ s \in Analysts
    /\ resumes_processed[s] # <<>>
    /\ Room(s, 2)
    /\ \E prompt \in ChatPrompts, prompt_type \in PickedModes :
       /\ Selects(s, prompt_type)
       /\ \E S \in {write_mode(Session(s), prompt_type)} :
          \E failP \in FailuresIf(AsksPending(S)),
             failC \in SetupFailures :
          \E stop \in StopsOf(S, prompt) :
          \E m \in {main_interface(S, collection, prompt, failP, failC, stop)} :
               Commit(s, "chat", m.S, collection, FALSE, temp_dir,
                      NoIngest, NoClear, m.turns, m.wait)
    /\ UNCHANGED started

\* The first wait of the chain call ends: the query is embedded and the
\* collection searched as it is now.  With the hits the call goes on to the
\* language model; an exception ends the call, and the run goes on as after
\* any call that raised.
AskSearch(s) ==
    /\ started[s]
    /\ wait[s].at = "ask"
    /\ \E embed_ok \in BOOLEAN,
          hits \in top_k(collection.records, RETRIEVER_K) :
       \E S \in {Session(s)} :
       \E out \in {retrieve(collection, S.vector_store, embed_ok, hits)} :
            IF out.raised = None
            THEN Commit(s, "search", S, collection, FALSE, temp_dir,
                        NoIngest, NoClear, <<>>, Generating(wait[s], hits))
            ELSE \E stop \in CallStopsAfter(wait[s], out),
                    failC \in FailuresIf(wait[s].source = "pending"
                                         /\ wait[s].prompt # None) :
                 \E f \in {finish_turn(S, wait[s], out, 0, collection, failC,
                                       stop)} :
                    Commit(s, "answer", f.S, collection, FALSE, temp_dir,
                           NoIngest, NoClear, f.turns, f.wait)
    /\ UNCHANGED <<started, selectbox>>

\* The call of the chain returns or raises out of the language model: the
\* answer, with the chunks found by the search, or the error message is
\* appended and the run goes on to its end.
AskFinish(s) ==
    /\ started[s]
    /\ wait[s].at = "generate"
    /\ \E generate_ok \in BOOLEAN,
          failC \in FailuresIf(wait[s].source = "pending" /\ wait[s].prompt # None) :
       \E out \in {generate(wait[s].setup.chain, wait[s].question,
                            wait[s].hits, generate_ok)} :
       \E stop \in CallStopsAfter(wait[s], out) :
       \E f \in {finish_turn(Session(s), wait[s], out, out.llm_calls,
                             collection, failC, stop)} :
            Commit(s, "answer", f.S, collection, FALSE, temp_dir,
                   NoIngest, NoClear, f.turns, f.wait)
    /\ UNCHANGED <<started, selectbox>>

Next ==
    \E s \in Sessions :
        \/ RunStopped(s)
        \/ Load(s)
        \/ Rerun(s)
        \/ SelectMode(s)
        \/ QuickAnalysis(s)
        \/ ClearAll(s)
        \/ ProcessResumes(s)
        \/ ProcessFinish(s)
        \/ ChatInput(s)
        \/ AskSearch(s)
        \/ AskFinish(s)

Spec == Init /\ [][Next]_vars

\* The session keeps being rerun and the model service answers or fails: a
\* session in which a run to the end can find a question pending again and
\* again has such a run (the user's other events neither hold it off nor
\* stop it for ever), and a call that waits returns or raises.
SpecLive ==
    Spec /\ \A s \in Sessions :
                /\ SF_vars(RerunAt(s, "none"))
                /\ WF_vars(ProcessFinish(s))
                /\ WF_vars(AskSearch(s))
                /\ WF_vars(AskFinish(s))

(***************************************************************************)
(* Direct calls of the pure functions, on inputs the user interface does    *)
(* not produce (other extensions, other mode strings)                       *)
(***************************************************************************)
\* The files on disk that the calls are given.
DataFiles ==
    {\* alice.txt
     DiskFile(Path("/data", FileName(<<97, 108, 105, 99, 101>>, <<116, 120, 116>>)),
              Content(TRUE, <<900>>)),
     \* scan.PDF, with an empty page
     DiskFile(Path("/data", FileName(<<115, 99, 97, 110>>, <<80, 68, 70>>)),
              Content(TRUE, <<300, 0, 1700>>)),
     \* r(U+00E9)sum(U+00E9).Docx
     DiskFile(Path("/data", FileName(<<114, 233, 115, 117, 109, 233>>, <<68, 111, 99, 120>>)),
              Content(TRUE, <<100>>)),
     \* broken.docx, which the parser raises on
     DiskFile(Path("/data", FileName(<<98, 114, 111, 107, 101, 110>>, <<100, 111, 99, 120>>)),
              Content(FALSE, <<>>)),
     \* notes.CS(U+00C9), whose extension lowers to .cs(U+00E9)
     DiskFile(Path("/data", FileName(<<110, 111, 116, 101, 115>>, <<67, 83, 201>>)),
              Content(TRUE, <<100>>)),
     \* .txt, a name without extension
     DiskFile(Path("/data", <<<<>>, <<116, 120, 116>>>>),
              Content(TRUE, <<100>>)),
     \* readme.md
     DiskFile(Path("/data", FileName(<<114, 101, 97, 100, 109, 101>>, <<109, 100>>)),
              Content(TRUE, <<800>>))}

\* The mode strings the calls are given.
ModeStrings == AnalysisModes \cup {"", "General", "summary", "skills"}

CallProcessDocuments ==
    /\ \E file_paths \in SeqsUpTo(DataFiles, MaxPaths) :
          unit' = [fn |-> "process_documents", arg |-> file_paths,
                   result |-> process_documents(file_paths)]
    /\ UNCHANGED <<collection, vector_store, messages, resumes_processed,
                   current_prompt_type, pending_question, selectbox, started,
                   temp_dir, wait, last>>

CallGetPromptTemplate ==
    /\ \E prompt_type \in ModeStrings :
          unit' = [fn |-> "get_prompt_template", arg |-> prompt_type,
                   result |-> get_prompt_template(prompt_type)]
    /\ UNCHANGED <<collection, vector_store, messages, resumes_processed,
                   current_prompt_type, pending_question, selectbox, started,
                   temp_dir, wait, last>>

NextUnits == CallProcessDocuments \/ CallGetPromptTemplate

SpecUnits == Init /\ [][NextUnits]_vars

(***************************************************************************)
(* Properties                                                              *)
(***************************************************************************)
ErrorMessages(seq) ==
    {k \in DOMAIN seq : seq[k].role = "assistant" /\ seq[k].content.prefix = ErrorPrefix}

ErrorTurns(turns) == {i \in DOMAIN turns : turns[i].kind = "error"}

\* The chunks a similarity search of the collection can give session s,
\* whatever its store.
Retrievable(s) ==
    IF started[s] /\ collection.exists
    THEN UNION top_k(collection.records, RETRIEVER_K)
    ELSE {}

\* C1: a question put through the chain while the collection holds no chunk,
\* for which no chunk is retrieved, ends in an error outcome that is shown on
\* the page, and the language model is not invoked for it.
C1_NoContextNoGeneration ==
    [][\A i \in DOMAIN last'.turns :
        (collection.records = {} /\ last'.turns[i].retrieved \in {{}, {{}}})
            => /\ last'.turns[i].kind \in {"error", "nochain"}
               /\ last'.turns[i].llm_calls = 0
               /\ last'.turns[i].shown]_vars

\* C2: after a successful ingestion every chunk stored from an uploaded file
\* carries that file's name as its filename metadata.
C2_FilenameIsUploadedName ==
    (last.ingest.called /\ last.ingest.ok) =>
        \A i \in DOMAIN last.ingest.temp_files :
            \A c \in collection.records :
                c.metadata.source = last.ingest.temp_files[i].path
                    => c.metadata.filename = last.ingest.uploaded_files[i].name

\* The formats the loader has a parser for.
SupportedFormats ==
    {<<46, 112, 100, 102>>, <<46, 116, 120, 116>>, <<46, 109, 100>>,
     <<46, 100, 111, 99, 120>>}

Loadable(file) ==
    file_extension(file.path) \in SupportedFormats /\ file.content.ok

\* The chunks of the loadable files of a list, in order.
ChunksOfLoadable(fs) ==
    Flatten([i \in DOMAIN fs |->
                IF Loadable(fs[i]) THEN process_documents(<<fs[i]>>) ELSE <<>>])

\* process_documents called on its own, where nothing stops the call: it
\* returns, in order, the chunks of every loadable file of the list, and
\* nothing of a file that is unsupported or fails to parse.
PartialSuccessOfCall ==
    unit.fn = "process_documents" =>
        LET fs == unit.arg
            res == unit.result
        IN  /\ res = ChunksOfLoadable(fs)
            /\ \A i \in DOMAIN fs :
                  IF Loadable(fs[i])
                  THEN SumSeq(fs[i].content.pages) > 0
                          => \E k \in DOMAIN res : res[k].metadata.source = fs[i].path
                  ELSE \A k \in DOMAIN res : res[k].metadata.source # fs[i].path

\* C3: the process_documents call of an ingestion (made once the temporary
\* files are written) reports every file that is unsupported or fails to
\* parse, is not ended by it, and returns the chunks of every loadable file
\* of the list, before or after a failing one.
C3_FailingFileSkipped ==
    (last.ingest.called /\ ~last.ingest.raised) =>
        LET fs == last.ingest.temp_files
        IN  /\ last.ingest.documents = ChunksOfLoadable(fs)
            /\ last.ingest.reported =
                  {fs[i].path : i \in {j \in DOMAIN fs : ~Loadable(fs[j])}}

\* C4: once clear_database has returned True the collection holds no record and
\* no session's retrieval gives a chunk, records appear in an empty collection
\* only by an add_documents that returns True, and a search finds chunks of
\* the collection as it is when the search ends: none while it is empty.
C4_ClearedStaysEmpty ==
    /\ []((last.op = "clear" /\ last.clear.ok) =>
            /\ collection.records = {}
            /\ \A s \in Sessions : Retrievable(s) = {})
    /\ [][(collection.records = {} /\ collection'.records # {})
            => (last'.ingest.called /\ last'.ingest.add_ok)]_vars
    /\ [][last'.op = "search"
            => wait'[last'.s].hits \subseteq collection.records]_vars

\* A clear that returned True on a collection with chunks, another session
\* having a store on it.
C4_Witness ==
    /\ last.op = "clear" /\ last.clear.ok
    /\ last.clear.found.records # {}
    /\ \E s \in Sessions \ {last.s} : started[s] /\ vector_store[s] = "stale"

\* The messages a step appended to the conversation of session s.
Appended(old, new) == SubSeq(new, Len(old) + 1, Len(new))

\* C5: a run in which a question failed has appended one error message per
\* failure, has invoked the language model at most once for it, and has left
\* the loaded list, the collection and the selected mode: the mode is the one
\* the question was put under, and in a run without a new selectbox value the
\* one the selectbox had before.
C5_FailureIsReported ==
    [][\A s \in Sessions :
        (last'.s = s /\ ErrorTurns(last'.turns) # {}) =>
            /\ IsPrefix(messages[s], messages'[s])
            /\ Cardinality(ErrorMessages(Appended(messages[s], messages'[s])))
                  = Cardinality(ErrorTurns(last'.turns))
            /\ \A i \in ErrorTurns(last'.turns) :
                  /\ last'.turns[i].llm_calls <= 1
                  /\ current_prompt_type'[s] = last'.turns[i].prompt_type
            /\ last'.op \in {"rerun", "answer"}
                  => current_prompt_type'[s] = selectbox[s]
            /\ resumes_processed'[s] = resumes_processed[s]
            /\ collection' = collection]_vars

\* An uploaded file that the loader can load from its temporary copy.
LoadableUpload(u) ==
    Loadable(DiskFile(temp_path(u, TmpTokens[1]), u.content))

\* C6: an ingestion in which no uploaded file can be loaded, or whose
\* add_documents does not return True, returns False and leaves the loaded
\* list and the conversation as they were; the loaded list grows only in a
\* run whose add_documents returned True.
C6_FailedIngestionChangesNothing ==
    [][\A s \in Sessions :
        /\ (last'.s = s /\ last'.ingest.called
              /\ \/ \A i \in DOMAIN last'.ingest.uploaded_files :
                       ~LoadableUpload(last'.ingest.uploaded_files[i])
                 \/ last'.ingest.add_called /\ ~last'.ingest.add_ok)
            => /\ last'.ingest.returned = {FALSE}
               /\ last'.ingest.resumes_processed = resumes_processed[s]
               /\ last'.ingest.messages = messages[s]
        /\ Len(resumes_processed'[s]) > Len(resumes_processed[s])
            => (last'.s = s /\ last'.ingest.called /\ last'.ingest.add_ok)]_vars

\* C7: every step leaves the conversation of every session a prefix of what it
\* becomes, but a Clear All whose clear_database returned True, which empties it.
C7_AppendOnly ==
    [][\A s \in Sessions :
        \/ IsPrefix(messages[s], messages'[s])
        \/ /\ messages'[s] = <<>>
           /\ last'.op = "clear" /\ last'.s = s /\ last'.clear.ok]_vars

\* A pending question answered behind the messages that were there.
C7_Witness ==
    /\ last.op = "answer"
    /\ \E i \in DOMAIN last.turns : last.turns[i].source = "pending"
    /\ Len(messages[last.s]) >= 2

\* C8: a clear_database called on a collection that is already empty, or
\* right after a call in the same session, returns True and leaves the empty
\* collection with the session's store on it, which takes a following
\* add_documents.
C8_ClearIdempotent ==
    [][(/\ last'.op = "clear"
        /\ \/ collection = EmptyCollection
           \/ last.op = "clear" /\ last.s = last'.s)
        => /\ last'.clear.ok
           /\ collection' = EmptyCollection
           /\ vector_store'[last'.s] = "bound"
           /\ \A fs \in UploadLists :
                 LET docs == process_documents(
                                [i \in DOMAIN fs |->
                                    DiskFile(temp_path(fs[i], TmpTokens[1]),
                                             fs[i].content)])
                 IN  docs # <<>> =>
                        add_documents(collection', vector_store'[last'.s],
                                      docs, TRUE).ok]_vars

\* C9: get_prompt_template gives each of the four modes its own template, any
\* other string the template of "general", and always the input variables
\* context and question, which are the placeholders of the template.
C9_PromptTemplate ==
    unit.fn = "get_prompt_template" =>
        /\ unit.arg \in AnalysisModes => unit.result.template = RESUME_PROMPTS[unit.arg]
        /\ unit.arg \notin AnalysisModes
              => unit.result.template = RESUME_PROMPTS["general"]
        /\ Len(unit.result.input_variables) = 2
        /\ Range(unit.result.input_variables) = {"context", "question"}
        /\ placeholders(unit.result.template) = {"context", "question"}

\* A call with a string that is none of the four modes.
C9_Witness ==
    /\ unit.fn = "get_prompt_template"
    /\ unit.arg \notin AnalysisModes
    /\ unit.result.template = RESUME_PROMPTS["general"]

\* C10: every name a successful ingestion listed as loaded is the name of an
\* uploaded file of which the collection holds a chunk, and no listed name is
\* that of a file the loader skipped.
C10_ListedMeansStored ==
    /\ (last.ingest.called /\ last.ingest.ok) =>
          \A i \in DOMAIN last.ingest.uploaded_files :
              \E c \in collection.records :
                  c.metadata.source = last.ingest.temp_files[i].path
    /\ \A s \in Sessions : \A k \in DOMAIN resumes_processed[s] :
          \E u \in Uploads :
              /\ u.name = resumes_processed[s][k]
              /\ load_document(DiskFile(temp_path(u, TmpTokens[1]), u.content)) # <<>>

\* C11: when process_uploaded_files has returned or raised, none of the
\* temporary files it created exists any more.
C11_TempFilesDeleted ==
    last.ingest.called =>
        \A f \in last.ingest.created : f \notin temp_dir

\* In the conversation of s every user message that has a successor is
\* followed by an assistant message and then, if anything, by a user message.
AnsweredInTurn(s) ==
    \A k \in DOMAIN messages[s] :
        (messages[s][k].role = "user" /\ k < Len(messages[s])) =>
            /\ messages[s][k + 1].role = "assistant"
            /\ k + 2 <= Len(messages[s]) => messages[s][k + 2].role = "user"

\* The conversation of s ends with a user message.
AwaitsAnswer(s) ==
    /\ messages[s] # <<>>
    /\ messages[s][Len(messages[s])].role = "user"

\* C12: every user message is followed by exactly one assistant message before
\* the next user message, and a conversation that ends with a user message
\* eventually does not, while the session keeps being rerun.
C12_EveryQuestionAnswered ==
    /\ [](\A s \in Sessions : AnsweredInTurn(s))
    /\ \A s \in Sessions : AwaitsAnswer(s) ~> ~AwaitsAnswer(s)

====
